---- MODULE Spec2Model ----
(***************************************************************************)
(* Model of the rankchoice backend: the single-winner RCV tabulator        *)
(* (services/rcv.rs), the response of the results handlers to its outcome  *)
(* (api/results.rs), and the ballot submission and receipt handlers with   *)
(* their store (api/voting.rs, models/ballot.rs).                          *)
(*                                                                         *)
(* Candidate ids (Uuid) are the integers 1..MaxCandidates; Option::None of *)
(* a candidate id is None (0).  f64 tallies are whole numbers far below    *)
(* 2^53, so they are modelled as exact integers.                           *)
(***************************************************************************)
EXTENDS Integers, Sequences, FiniteSets, TLC

\* Bounds of the model.
MaxCandidates == 3
MaxBallots == 3
MaxRankLen == 2

None == 0
NoReason == "None"

CandidateIds == 1..MaxCandidates

Range(s) == {s[i] : i \in DOMAIN s}
SeqsUpTo(S, n) == UNION {[1..k -> S] : k \in 0..n}
MinOf(S) == CHOOSE x \in S : \A y \in S : x <= y
MaxOf(S) == CHOOSE x \in S : \A y \in S : x >= y

\* Every order in which a set can be enumerated (HashMap iteration order).
Orderings(S) ==
  {s \in [1..Cardinality(S) -> S] : \A i, j \in DOMAIN s : i # j => s[i] # s[j]}

\* The list b rearranged by the ordering p of its positions.
Permute(b, p) == [k \in DOMAIN b |-> b[p[k]]]

RECURSIVE SumOver(_, _)
SumOver(f, S) ==
  IF S = {} THEN 0
  ELSE LET x == CHOOSE y \in S : TRUE IN f[x] + SumOver(f, S \ {x})

----------------------------------------------------------------------------
\* The tabulator (services/rcv.rs).

VARIABLES
  candidates,            \* SingleWinnerRCV.candidates (the set of their ids)
  ballots,               \* the ballot list handed to the first tabulation
  tie_break_method,      \* SingleWinnerRCV.tie_break_method
  rng,                   \* rng[n]: gen_range(0..n) of StdRng seeded with the
                         \* effective seed, -1 while not drawn yet
  run,                   \* 1: first tabulation, 2: second tabulation
  cur_ballots,           \* SingleWinnerRCV.ballots of the running tabulation
  tpc,                   \* position in tabulate: "start", "loop", "done"
  rounds,                \* local rounds
  eliminated_candidates, \* local eliminated_candidates
  round_number,          \* local round_number
  tresult,               \* what tabulate returned (run = current)
  first_result,          \* what the first tabulation returned
  api_response           \* what get_poll_results / get_rcv_rounds answered

tabVars == <<candidates, ballots, tie_break_method, rng, run, cur_ballots, tpc,
             rounds, eliminated_candidates, round_number, tresult, first_result,
             api_response>>

NoResult == [err |-> "pending", rounds |-> <<>>, winner |-> None,
             total_ballots |-> 0, exhausted_ballots |-> 0]
ErrResult(msg) == [err |-> msg, rounds |-> <<>>, winner |-> None,
                   total_ballots |-> 0, exhausted_ballots |-> 0]

ErrInvalidCandidate == "Invalid candidate ID"
ErrDuplicate == "Duplicate candidate ranking"
ErrTooFew == "Need at least 2 candidates for RCV"
ErrTooManyRounds == "Too many rounds - possible infinite loop detected"

\* A mutant of BallotError: the seen_candidates check is left out.
BallotErrorMembershipOnly(cands, r) ==
  IF \E i \in DOMAIN r : r[i] \notin cands THEN ErrInvalidCandidate ELSE "Ok"

\* validate_ballots, one ballot: the first offending position decides.
BallotError(cands, r) ==
  LET bad == {i \in DOMAIN r :
                \/ r[i] \notin cands
                \/ \E j \in 1..(i - 1) : r[j] = r[i]}
  IN IF bad = {} THEN "Ok"
     ELSE IF r[MinOf(bad)] \notin cands THEN ErrInvalidCandidate
     ELSE ErrDuplicate

\* validate_ballots: the first offending ballot decides.
validate_ballots(cands, bs) ==
  LET bad == {i \in DOMAIN bs : BallotError(cands, bs[i]) # "Ok"}
  IN IF bad = {} THEN "Ok" ELSE BallotError(cands, bs[MinOf(bad)])

\* A mutant of Vote: the ballot keeps counting for its first choice.
VoteIgnoringEliminations(rankings, eliminated) ==
  IF Len(rankings) = 0 THEN None ELSE rankings[1]

\* The highest-ranked non-eliminated candidate of a ballot, None if exhausted.
Vote(rankings, eliminated) ==
  LET live == {i \in DOMAIN rankings : rankings[i] \notin eliminated}
  IN IF live = {} THEN None ELSE rankings[MinOf(live)]

\* vote_counts after the counting loop: an entry for every candidate some
\* ballot counts for.
VoteCounts(bs, eliminated) ==
  LET voted == {Vote(bs[i], eliminated) : i \in DOMAIN bs} \ {None}
  IN [c \in voted |-> Cardinality({i \in DOMAIN bs : Vote(bs[i], eliminated) = c})]

\* A mutant of ExhaustedCount: only ballots with an empty ranking count.
ExhaustedCountEmptyOnly(bs, eliminated) ==
  Cardinality({i \in DOMAIN bs : Len(bs[i]) = 0})

\* exhausted_count after the counting loop.
ExhaustedCount(bs, eliminated) ==
  Cardinality({i \in DOMAIN bs : Vote(bs[i], eliminated) = None})

\* first_choice_counts.get(id).unwrap_or(0)
FirstChoiceCount(bs, tied, id) ==
  Cardinality({i \in DOMAIN bs : Len(bs[i]) > 0 /\ bs[i][1] = id /\ id \in Range(tied)})

\* Strategy 1: the tied candidate with the fewest first-choice votes, if unique.
try_first_choice_tiebreak(bs, tied) ==
  LET min_first_choice == MinOf({FirstChoiceCount(bs, tied, tied[i]) : i \in DOMAIN tied})
      candidates_with_min ==
        SelectSeq(tied, LAMBDA id : FirstChoiceCount(bs, tied, id) = min_first_choice)
  IN IF Len(candidates_with_min) = 1 THEN candidates_with_min[1] ELSE None

\* One earlier round of strategy 2.  candidate_votes holds the tied candidates
\* that have a tally in the round; after the sort its head is returned when it
\* is strictly below the second entry, that is when the lowest tally is held
\* by one candidate only.
PriorRoundPick(tied, round) ==
  LET candidate_votes == SelectSeq(tied, LAMBDA id : id \in DOMAIN round.vote_counts)
      lowest == MinOf({round.vote_counts[candidate_votes[i]] : i \in DOMAIN candidate_votes})
      at_lowest == SelectSeq(candidate_votes, LAMBDA id : round.vote_counts[id] = lowest)
  IN IF Len(candidate_votes) > 1 /\ Len(at_lowest) = 1 THEN at_lowest[1] ELSE None

\* Strategy 2: walk the earlier rounds backwards, the first decisive one decides.
try_prior_round_tiebreak(tied, previous_rounds) ==
  LET decisive == {k \in DOMAIN previous_rounds : PriorRoundPick(tied, previous_rounds[k]) # None}
  IN IF decisive = {} THEN None
     ELSE PriorRoundPick(tied, previous_rounds[MaxOf(decisive)])

\* What one ballot adds to redistribution_counts[id]: the preferences left
\* after its earliest tied candidate, when that candidate is id.
Redistributes(r, tied, id) ==
  LET hits == {i \in DOMAIN r : r[i] \in Range(tied)}
  IN IF hits # {} /\ r[MinOf(hits)] = id THEN Len(r) - MinOf(hits) ELSE 0

RedistributionCount(bs, tied, id) ==
  SumOver([i \in DOMAIN bs |-> Redistributes(bs[i], tied, id)], DOMAIN bs)

\* Strategy 3: the tied candidate with the most votes to redistribute, if unique.
try_most_votes_to_distribute(bs, tied) ==
  LET max_redistribution == MaxOf({RedistributionCount(bs, tied, tied[i]) : i \in DOMAIN tied})
      candidates_with_max ==
        SelectSeq(tied, LAMBDA id : RedistributionCount(bs, tied, id) = max_redistribution)
  IN IF Len(candidates_with_max) = 1 THEN candidates_with_max[1] ELSE None

\* Strategy 4: tied_candidates[rng.gen_range(0..len)]; idx is the number drawn.
random_tiebreak(tied, idx) == tied[idx + 1]

\* A mutant of break_tie_comprehensive: strategy 3 is tried before strategy 2.
break_tie_swapped(bs, tied, previous_rounds, idx) ==
  IF try_first_choice_tiebreak(bs, tied) # None
    THEN <<try_first_choice_tiebreak(bs, tied), "FirstChoiceVotes">>
  ELSE IF try_most_votes_to_distribute(bs, tied) # None
    THEN <<try_most_votes_to_distribute(bs, tied), "MostVotesToDistribute">>
  ELSE IF try_prior_round_tiebreak(tied, previous_rounds) # None
    THEN <<try_prior_round_tiebreak(tied, previous_rounds), "PriorRoundPerformance">>
  ELSE <<random_tiebreak(tied, idx), "Random">>

\* The ladder: <<eliminated, reason>>.
break_tie_comprehensive(bs, tied, previous_rounds, idx) ==
  IF try_first_choice_tiebreak(bs, tied) # None
    THEN <<try_first_choice_tiebreak(bs, tied), "FirstChoiceVotes">>
  ELSE IF try_prior_round_tiebreak(tied, previous_rounds) # None
    THEN <<try_prior_round_tiebreak(tied, previous_rounds), "PriorRoundPerformance">>
  ELSE IF try_most_votes_to_distribute(bs, tied) # None
    THEN <<try_most_votes_to_distribute(bs, tied), "MostVotesToDistribute">>
  ELSE <<random_tiebreak(tied, idx), "Random">>

\* A mutant of TiedSet: the filter on the minimum is left out.
TiedSetUnfiltered(vote_counts) == DOMAIN vote_counts

\* The candidates at the minimum tally of a round.
TiedSet(vote_counts) ==
  IF DOMAIN vote_counts = {} THEN {}
  ELSE LET min_votes == MinOf({vote_counts[c] : c \in DOMAIN vote_counts})
       IN {c \in DOMAIN vote_counts : vote_counts[c] = min_votes}

\* A mutant of MajoritySet: half of the votes is enough.
MajoritySetAtLeastHalf(vote_counts, total_votes) ==
  {c \in DOMAIN vote_counts : 2 * vote_counts[c] >= total_votes}

\* The candidates above the majority threshold total_votes / 2.
MajoritySet(vote_counts, total_votes) ==
  {c \in DOMAIN vote_counts : 2 * vote_counts[c] > total_votes}

\* A mutant of Eliminate: the set is replaced by the latest elimination.
EliminateLatestOnly(eliminated, c) == {c}

\* eliminated_candidates.insert(eliminated)
Eliminate(eliminated, c) == eliminated \cup {c}

\* A mutant of FinalWinner: the declared winner of the last round is ignored.
FinalWinnerFallbackOnly(rs, first_key) == first_key

\* final_winner: the last round's winner, or else the first key of its
\* vote_counts (first_key, None when the map is empty).
FinalWinner(rs, first_key) ==
  IF rs[Len(rs)].winner # None THEN rs[Len(rs)].winner ELSE first_key

\* The seed random_tiebreak uses when tie_break_method is not Random(seed).
DefaultSeed == 42

Random(seed) == [kind |-> "Random", seed |-> seed]

PriorRoundPerformance == [kind |-> "PriorRoundPerformance", seed |-> 0]

\* SingleWinnerRCV::new keeps Random(42); with_tie_break_method replaces it.
\* random_tiebreak seeds its generator with 42 for both.
TieBreakMethods == {Random(DefaultSeed), PriorRoundPerformance}

\* A response of the results handlers: the HTTP status, whether the body is
\* the JSON envelope, and the envelope's success and error.code.
NoResponse == [http |-> 0, envelope |-> FALSE, success |-> FALSE, code |-> ""]
Success == [http |-> 200, envelope |-> TRUE, success |-> TRUE, code |-> ""]
BareStatus(status) == [http |-> status, envelope |-> FALSE, success |-> FALSE, code |-> ""]

Rankings == SeqsUpTo(CandidateIds, MaxRankLen)
BallotLists == SeqsUpTo(Rankings, MaxBallots)

\* The numbers gen_range(0..n) can return for the seed of this behaviour: the
\* generator is a fixed function of the seed, so a number once drawn is kept.
Draws(n) ==
  IF n \in DOMAIN rng
    THEN (IF rng[n] # -1 THEN {rng[n]} ELSE 0..(n - 1))
    ELSE {0}

\* Every rearrangement of a ballot list.
PermutationsOf(b) == {Permute(b, p) : p \in Orderings(DOMAIN b)}

\* A ballot list in canonical order.  The first tabulation takes the ballots
\* in canonical order and the second takes them in any order, so that every
\* ballot list within the bounds is tabulated.
RECURSIVE RankCode(_)
RankCode(r) ==
  IF Len(r) = 0 THEN 0 ELSE r[1] + (MaxCandidates + 1) * RankCode(Tail(r))
Canonical(b) == \A i \in DOMAIN b : \A j \in DOMAIN b : i < j => RankCode(b[i]) <= RankCode(b[j])


----------------------------------------------------------------------------
\* Ballot submission (api/voting.rs) and the store (models/ballot.rs).
\*
\* The store holds one poll with the candidates PollCandidates.  The ballot
\* token of invited voter v is v; token 0 belongs to no voter.  A ballot row
\* created by request r has id r; its voter_id is 0 for NULL.  Rows inserted
\* inside a transaction become visible at commit and vanish when the
\* transaction is dropped without commit.

\* Bounds of the submission model.
MaxVoters == 1
MaxRequests == 2
MaxRank == 3
MaxTime == 3

Voters == 1..MaxVoters
Requests == 1..MaxRequests
PollCandidates == 1..(MaxCandidates - 1)
NoTime == -1

VARIABLES
  voted_at,            \* voters.voted_at per invited voter, NoTime for NULL
  ballots_tbl,         \* committed rows of ballots: [id, voter_id]
  rankings_tbl,        \* committed rows of rankings: [ballot_id, candidate_id, rank]
  poll,                \* the polls row: [is_public, opens_at, closes_at]
  now,                 \* the clock (chrono::Utc::now, CURRENT_TIMESTAMP)
  voter_index,         \* whether ballots has a unique index on voter_id
  req                  \* per request: position and locals of its handler

voteVars == <<voted_at, ballots_tbl, rankings_tbl, poll, now, voter_index, req>>

vars == <<tabVars, voteVars>>

\* failed_at records where a store failure or a cancellation hit the handler.
\* at is the time of the is_open check, or of the rejection that came before
\* it; submitted_at is the ballot row's
\* submitted_at as returned by its INSERT.
IdleRequest == [pc |-> "idle", kind |-> "none", voter |-> 0, body |-> <<>>,
                inserted |-> 0, resp |-> "none", receipt |-> <<>>, failed_at |-> "",
                at |-> NoTime, submitted_at |-> NoTime]

\* format("%Y") of a time: a year has two ticks of the clock.
Year(t) == t \div 2

\* Request bodies: lists of (candidate_id, rank).
Pairs == [candidate_id : CandidateIds, rank : 1..MaxRank]
Bodies == SeqsUpTo(Pairs, MaxRankLen)

\* The schema of ballots as the store contract describes it: either there is
\* a unique index on voter_id (NULLs excepted) or there is none.
VoterIndexChoices == BOOLEAN

\* The schema of rankings as the store contract describes it: any
\* (ballot_id, candidate_id, rank) row may be inserted.
RankingInsertOk(rows, row) == TRUE

\* A mutant of is_open: the bounds of the window are excluded.
is_openExclusive(p, t) ==
  /\ (p.opens_at = NoTime \/ t > p.opens_at)
  /\ (p.closes_at = NoTime \/ t < p.closes_at)

\* poll.opens_at.map_or(true, |opens| now >= opens) &&
\* poll.closes_at.map_or(true, |closes| now <= closes)
is_open(p, t) ==
  /\ (p.opens_at = NoTime \/ t >= p.opens_at)
  /\ (p.closes_at = NoTime \/ t <= p.closes_at)

\* ranks.sort(): the ranks of a body in ascending order.
RECURSIVE SortedRanks(_)
SortedRanks(rs) ==
  IF Len(rs) = 0 THEN <<>>
  ELSE LET i == CHOOSE k \in DOMAIN rs : \A j \in DOMAIN rs : rs[k] <= rs[j]
       IN <<rs[i]>> \o SortedRanks([k \in 1..(Len(rs) - 1) |-> IF k < i THEN rs[k] ELSE rs[k + 1]])

\* A mutant of ValidateRankings: the check of the rank sequence is left out.
ValidateRankingsNoSequence(body, valid_candidate_ids) ==
  IF Len(body) = 0 THEN "Ballot must contain at least one ranking"
  ELSE IF \E k \in DOMAIN body : body[k].candidate_id \notin valid_candidate_ids
    THEN "Invalid candidate ID in ballot"
  ELSE "Ok"

\* The validation of the rankings in submit_ballot and submit_anonymous_vote:
\* the message of the VALIDATION_ERROR, or "Ok".
ValidateRankings(body, valid_candidate_ids) ==
  LET ranks == SortedRanks([k \in DOMAIN body |-> body[k].rank])
  IN IF Len(body) = 0 THEN "Ballot must contain at least one ranking"
     ELSE IF \E k \in DOMAIN body : body[k].candidate_id \notin valid_candidate_ids
       THEN "Invalid candidate ID in ballot"
     ELSE IF \E i \in DOMAIN ranks : ranks[i] # i
       THEN "Rankings must be sequential starting from 1"
     ELSE "Ok"

Done(r, code) == [req[r] EXCEPT !.pc = "done", !.resp = code]

\* The rows of rankings a request has inserted in its transaction so far.
TxRankings(r) ==
  {[ballot_id |-> r, candidate_id |-> req[r].body[k].candidate_id, rank |-> req[r].body[k].rank] :
     k \in 1..req[r].inserted}

\* The ballot row a request inserts.
TxBallot(r) == [id |-> r, voter_id |-> req[r].voter, submitted_at |-> req[r].submitted_at]

\* Another open transaction holds an uncommitted ballot row of the voter.
VoterRowPending(r) ==
  \E q \in Requests \ {r} :
    req[q].pc = "tx" /\ req[q].voter # 0 /\ req[q].voter = req[r].voter

InitStore ==
  /\ voted_at = [v \in Voters |-> NoTime]
  /\ ballots_tbl = {}
  /\ rankings_tbl = {}
  /\ now = 1
  /\ req = [r \in Requests |-> IdleRequest]

\* submit_ballot up to the has_voted check: Voter::find_by_token, then the
\* test of the voted_at that was read.
SubmitBallotFind(r) ==
  /\ req[r].pc = "idle"
  /\ \E token \in {0} \cup Voters : \E body \in Bodies :
       req' = [req EXCEPT ![r] =
                 [(IF token = 0 THEN Done(r, "NOT_FOUND")
                   ELSE IF voted_at[token] # NoTime THEN Done(r, "ALREADY_VOTED")
                   ELSE [req[r] EXCEPT !.pc = "found_voter"])
                  EXCEPT !.kind = "invited", !.voter = token, !.body = body, !.at = now]]
  /\ UNCHANGED <<voted_at, ballots_tbl, rankings_tbl, poll, now, voter_index, tabVars>>

\* submit_ballot from Poll::find_by_id to the end of the validation.
SubmitBallotValidate(r) ==
  /\ req[r].pc = "found_voter"
  /\ req' = [req EXCEPT ![r] =
               [(IF ~is_open(poll, now) THEN Done(r, "POLL_CLOSED")
                 ELSE IF ValidateRankings(req[r].body, PollCandidates) # "Ok"
                   THEN Done(r, "VALIDATION_ERROR")
                 ELSE [req[r] EXCEPT !.pc = "create"])
                EXCEPT !.at = now]]
  /\ UNCHANGED <<voted_at, ballots_tbl, rankings_tbl, poll, now, voter_index, tabVars>>

\* A mutant of AnonymousVoteChecks: the test of is_public is left out.
AnonymousVoteChecksNoPublic(p, t, body) ==
  IF ~is_open(p, t) THEN "POLL_CLOSED"
  ELSE IF ValidateRankings(body, PollCandidates) # "Ok" THEN "VALIDATION_ERROR"
  ELSE "Ok"

\* The checks of submit_anonymous_vote on the poll it found, in their order:
\* the error code of the first that fails, or "Ok".
AnonymousVoteChecks(p, t, body) ==
  IF ~p.is_public THEN "POLL_NOT_PUBLIC"
  ELSE IF ~is_open(p, t) THEN "POLL_CLOSED"
  ELSE IF ValidateRankings(body, PollCandidates) # "Ok" THEN "VALIDATION_ERROR"
  ELSE "Ok"

\* submit_anonymous_vote from Poll::find_by_id to the end of the validation.
AnonymousVoteValidate(r) ==
  /\ req[r].pc = "idle"
  /\ \E found \in BOOLEAN : \E body \in Bodies :
       req' = [req EXCEPT ![r] =
                 [(IF ~found THEN Done(r, "NOT_FOUND")
                   ELSE IF AnonymousVoteChecks(poll, now, body) # "Ok"
                     THEN Done(r, AnonymousVoteChecks(poll, now, body))
                   ELSE [req[r] EXCEPT !.pc = "create"])
                  EXCEPT !.kind = "anonymous", !.body = body, !.at = now]]
  /\ UNCHANGED <<voted_at, ballots_tbl, rankings_tbl, poll, now, voter_index, tabVars>>

\* Ballot::create / create_anonymous_ballot: pool.begin and the INSERT INTO
\* ballots.  With the unique index the insert of a second row for a voter
\* fails, after waiting for an open transaction that holds such a row.
TxInsertBallot(r) ==
  /\ req[r].pc = "create"
  /\ ~(voter_index /\ VoterRowPending(r))
  /\ req' = [req EXCEPT ![r] =
               IF /\ voter_index
                  /\ req[r].voter # 0
                  /\ \E b \in ballots_tbl : b.voter_id = req[r].voter
                 THEN Done(r, "INTERNAL_SERVER_ERROR")
                 ELSE [req[r] EXCEPT !.pc = "tx", !.inserted = 0, !.submitted_at = now]]
  /\ UNCHANGED <<voted_at, ballots_tbl, rankings_tbl, poll, now, voter_index, tabVars>>

\* One INSERT INTO rankings of the loop over the rankings.
TxInsertRanking(r) ==
  /\ req[r].pc = "tx"
  /\ req[r].inserted < Len(req[r].body)
  /\ LET k == req[r].inserted + 1
         row == [ballot_id |-> r, candidate_id |-> req[r].body[k].candidate_id,
                 rank |-> req[r].body[k].rank]
     IN req' = [req EXCEPT ![r] =
                  IF RankingInsertOk(TxRankings(r), row)
                    THEN [req[r] EXCEPT !.inserted = k]
                    ELSE Done(r, "INTERNAL_SERVER_ERROR")]
  /\ UNCHANGED <<voted_at, ballots_tbl, rankings_tbl, poll, now, voter_index, tabVars>>

\* A mutant of CommitRows: the ballot row is committed without its rankings.
CommitBallotRowOnly(r) ==
  /\ ballots_tbl' = ballots_tbl \cup {TxBallot(r)}
  /\ rankings_tbl' = rankings_tbl

\* What tx.commit makes visible: the ballot row and its rankings, at once.
CommitRows(r) ==
  /\ ballots_tbl' = ballots_tbl \cup {TxBallot(r)}
  /\ rankings_tbl' = rankings_tbl \cup TxRankings(r)

\* tx.commit after the last ranking; Ballot::create returns to submit_ballot,
\* create_anonymous_ballot to submit_anonymous_vote.
TxCommit(r) ==
  /\ req[r].pc = "tx"
  /\ req[r].inserted = Len(req[r].body)
  /\ CommitRows(r)
  /\ req' = [req EXCEPT ![r].pc = IF req[r].kind = "invited" THEN "mark" ELSE "respond"]
  /\ UNCHANGED <<voted_at, poll, now, voter_index, tabVars>>

\* Voter::mark_as_voted: UPDATE voters SET voted_at = CURRENT_TIMESTAMP WHERE id = $1.
MarkAsVoted(r) ==
  /\ req[r].pc = "mark"
  /\ voted_at' = [voted_at EXCEPT ![req[r].voter] = now]
  /\ req' = [req EXCEPT ![r].pc = "respond"]
  /\ UNCHANGED <<ballots_tbl, rankings_tbl, poll, now, voter_index, tabVars>>

\* The success response with its receipt: <<prefix, year, ballot id>>.
Respond(r) ==
  /\ req[r].pc = "respond"
  /\ req' = [req EXCEPT ![r] =
               [Done(r, "OK") EXCEPT
                  !.receipt = <<IF req[r].kind = "invited" THEN "VOTE" ELSE "ANON",
                                Year(now), r>>]]
  /\ UNCHANGED <<voted_at, ballots_tbl, rankings_tbl, poll, now, voter_index, tabVars>>

\* A store operation fails (Err(e) of an awaited query): the handler answers
\* 500; an open transaction is dropped, which rolls it back.
StoreFailure(r) ==
  /\ req[r].pc \in {"found_voter", "create", "tx", "mark"}
  /\ req' = [req EXCEPT ![r] = [Done(r, "INTERNAL_SERVER_ERROR") EXCEPT !.failed_at = req[r].pc]]
  /\ UNCHANGED <<voted_at, ballots_tbl, rankings_tbl, poll, now, voter_index, tabVars>>

\* The handler is cancelled at an await: its future is dropped, an open
\* transaction with it; no response is sent.
Cancel(r) ==
  /\ req[r].pc \in {"found_voter", "create", "tx", "mark"}
  /\ req' = [req EXCEPT ![r] = [Done(r, "CANCELLED") EXCEPT !.failed_at = req[r].pc]]
  /\ UNCHANGED <<voted_at, ballots_tbl, rankings_tbl, poll, now, voter_index, tabVars>>

\* SELECT id, submitted_at FROM ballots WHERE voter_id = $1
BallotRowsOf(v) == {b \in ballots_tbl : b.voter_id = v}

\* get_voting_receipt: Voter::find_by_token, the has_voted test, the ballot
\* query (fetch_one takes the first row the store returns) and the receipt
\* built from the row: <<prefix, year of submitted_at, ballot id>>.
GetVotingReceipt(r) ==
  /\ req[r].pc = "idle"
  /\ \E token \in {0} \cup Voters :
     \E row \in (IF token # 0 /\ BallotRowsOf(token) # {}
                  THEN BallotRowsOf(token)
                  ELSE {[id |-> 0, voter_id |-> 0, submitted_at |-> NoTime]}) :
       req' = [req EXCEPT ![r] =
                 [(IF token = 0 THEN Done(r, "NOT_FOUND")
                   ELSE IF voted_at[token] = NoTime THEN Done(r, "NOT_VOTED")
                   ELSE IF row.id = 0 THEN Done(r, "NOT_FOUND")
                   ELSE [Done(r, "OK") EXCEPT
                           !.receipt = <<"VOTE", Year(row.submitted_at), row.id>>])
                  EXCEPT !.kind = "receipt", !.voter = token]]
  /\ UNCHANGED <<voted_at, ballots_tbl, rankings_tbl, poll, now, voter_index, tabVars>>

\* Time passes.
Tick ==
  /\ now < MaxTime
  /\ now' = now + 1
  /\ UNCHANGED <<voted_at, ballots_tbl, rankings_tbl, poll, voter_index, req, tabVars>>

\* The tabulator is idle while submissions are handled, and the other way round.
TabIdle ==
  /\ candidates = {}
  /\ ballots = <<>>
  /\ tie_break_method = Random(DefaultSeed)
  /\ rng = [n \in 2..MaxCandidates |-> -1]
  /\ run = 2
  /\ cur_ballots = <<>>
  /\ tpc = "idle"
  /\ rounds = <<>>
  /\ eliminated_candidates = {}
  /\ round_number = 1
  /\ tresult = NoResult
  /\ first_result = NoResult
  /\ api_response = NoResponse

StoreIdle ==
  /\ InitStore
  /\ poll = [is_public |-> TRUE, opens_at |-> NoTime, closes_at |-> NoTime]
  /\ voter_index = FALSE

\* Concurrent submissions against an open poll.
InitVote ==
  /\ InitStore
  /\ poll \in [is_public : BOOLEAN, opens_at : {NoTime}, closes_at : {NoTime}]
  /\ voter_index \in VoterIndexChoices
  /\ TabIdle

NextVote ==
  \E r \in Requests :
    \/ SubmitBallotFind(r)
    \/ SubmitBallotValidate(r)
    \/ AnonymousVoteValidate(r)
    \/ TxInsertBallot(r)
    \/ TxInsertRanking(r)
    \/ TxCommit(r)
    \/ MarkAsVoted(r)
    \/ Respond(r)
    \/ StoreFailure(r)
    \/ Cancel(r)

SpecVote == InitVote /\ [][NextVote]_vars

\* The ballot id of the submission an invited voter made earlier.
EarlierBallot(v) == MaxRequests + v

\* One submission and then a request for the receipt, while time passes,
\* against a poll with or without a voting window.  The invited voters have
\* either not voted yet or all voted earlier, at time 0 with one ranking.
InitSubmit ==
  /\ \E voted \in BOOLEAN :
       /\ voted_at = [v \in Voters |-> IF voted THEN 0 ELSE NoTime]
       /\ ballots_tbl = IF voted
                          THEN {[id |-> EarlierBallot(v), voter_id |-> v, submitted_at |-> 0] :
                                  v \in Voters}
                          ELSE {}
       /\ rankings_tbl = IF voted
                           THEN {[ballot_id |-> EarlierBallot(v), candidate_id |-> 1, rank |-> 1] :
                                   v \in Voters}
                           ELSE {}
  /\ now = 0
  /\ req = [r \in Requests |-> IdleRequest]
  /\ poll \in [is_public : BOOLEAN, opens_at : {NoTime, 1}, closes_at : {NoTime, 2}]
  /\ voter_index \in VoterIndexChoices
  /\ TabIdle

NextSubmit ==
  \/ Tick
  \/ SubmitBallotFind(1)
  \/ AnonymousVoteValidate(1)
  \/ req[1].pc = "done" /\ GetVotingReceipt(2)
  \/ \E r \in Requests :
       \/ SubmitBallotValidate(r)
       \/ TxInsertBallot(r)
       \/ TxInsertRanking(r)
       \/ TxCommit(r)
       \/ MarkAsVoted(r)
       \/ Respond(r)
       \/ StoreFailure(r)
       \/ Cancel(r)

SpecSubmit == InitSubmit /\ [][NextSubmit]_vars

----------------------------------------------------------------------------
\* The tabulation of one input, twice.

InitTab ==
  /\ candidates \in {1..n : n \in 1..MaxCandidates}
  /\ ballots \in {b \in BallotLists : Canonical(b)}
  /\ tie_break_method \in TieBreakMethods
  /\ rng = [n \in 2..MaxCandidates |-> -1]
  /\ run = 1
  /\ cur_ballots = ballots
  /\ tpc = "start"
  /\ rounds = <<>>
  /\ eliminated_candidates = {}
  /\ round_number = 1
  /\ tresult = NoResult
  /\ first_result = NoResult
  /\ api_response = NoResponse
  /\ StoreIdle

\* tabulate, up to the loop: validation and the candidate count.
TabulateStart ==
  /\ tpc = "start"
  /\ rounds' = <<>>
  /\ eliminated_candidates' = {}
  /\ round_number' = 1
  /\ IF validate_ballots(candidates, cur_ballots) # "Ok"
       THEN /\ tpc' = "done"
            /\ tresult' = ErrResult(validate_ballots(candidates, cur_ballots))
     ELSE IF Cardinality(candidates) < 2
       THEN /\ tpc' = "done"
            /\ tresult' = ErrResult(ErrTooFew)
     ELSE /\ tpc' = "loop"
          /\ tresult' = tresult
  /\ UNCHANGED <<candidates, ballots, tie_break_method, rng, run, cur_ballots, first_result,
                 api_response, voteVars>>

\* One iteration of the loop of tabulate; on break, the final winner and the
\* returned RcvResult.  The enumeration order of vote_counts is free: winner
\* is the first entry above the threshold, tied_candidates lists the entries
\* at the minimum in that order, first_key is keys().next().
TabulateRound ==
  /\ tpc = "loop"
  /\ LET vote_counts == VoteCounts(cur_ballots, eliminated_candidates)
         exhausted_count == ExhaustedCount(cur_ballots, eliminated_candidates)
         total_votes == SumOver(vote_counts, DOMAIN vote_counts)
         majority == MajoritySet(vote_counts, total_votes)
         keys == DOMAIN vote_counts
     IN \E winner \in (IF majority = {} THEN {None} ELSE majority) :
        \E tied_candidates \in Orderings(TiedSet(vote_counts)) :
        \E idx \in Draws(Len(tied_candidates)) :
        \E first_key \in (IF keys = {} THEN {None} ELSE keys) :
          LET pair == IF winner = None /\ Cardinality(keys) > 1
                        THEN (IF Len(tied_candidates) = 1
                                THEN <<tied_candidates[1], NoReason>>
                                ELSE break_tie_comprehensive(cur_ballots, tied_candidates, rounds, idx))
                        ELSE <<None, NoReason>>
              round == [round_number |-> round_number,
                        vote_counts |-> vote_counts,
                        eliminated |-> pair[1],
                        winner |-> winner,
                        exhausted_ballots |-> exhausted_count,
                        total_votes |-> total_votes,
                        majority_threshold |-> <<total_votes, 2>>,
                        tiebreak_reason |-> pair[2]]
              pushed == Append(rounds, round)
          IN /\ rounds' = pushed
             /\ rng' = IF pair[2] = "Random"
                         THEN [rng EXCEPT ![Len(tied_candidates)] = idx]
                         ELSE rng
             /\ IF winner # None \/ Cardinality(keys) <= 1
                  THEN /\ tpc' = "done"
                       /\ tresult' = [err |-> "",
                                      rounds |-> pushed,
                                      winner |-> FinalWinner(pushed, first_key),
                                      total_ballots |-> Len(cur_ballots),
                                      exhausted_ballots |-> pushed[Len(pushed)].exhausted_ballots]
                       /\ UNCHANGED <<eliminated_candidates, round_number>>
                  ELSE /\ eliminated_candidates' =
                            IF pair[1] # None THEN Eliminate(eliminated_candidates, pair[1])
                            ELSE eliminated_candidates
                       /\ round_number' = round_number + 1
                       /\ IF round_number + 1 > Cardinality(candidates)
                            THEN /\ tpc' = "done"
                                 /\ tresult' = ErrResult(ErrTooManyRounds)
                            ELSE /\ tpc' = "loop"
                                 /\ tresult' = tresult
  /\ UNCHANGED <<candidates, ballots, tie_break_method, run, cur_ballots, first_result,
                 api_response, voteVars>>

\* The second tabulation: the same candidates and configuration, the ballot
\* list in any order (the same order included).
TabulateAgain ==
  /\ tpc = "done"
  /\ run = 1
  /\ run' = 2
  /\ first_result' = tresult
  /\ \E b \in PermutationsOf(ballots) : cur_ballots' = b
  /\ tpc' = "start"
  /\ tresult' = NoResult
  /\ rounds' = <<>>
  /\ eliminated_candidates' = {}
  /\ round_number' = 1
  /\ api_response' = NoResponse
  /\ UNCHANGED <<candidates, ballots, tie_break_method, rng, voteVars>>

\* What get_poll_results and get_rcv_rounds answer for the stored ballots bs
\* and the outcome of tabulate: the no-votes response without tabulating
\* when there is no ballot, Err(StatusCode::INTERNAL_SERVER_ERROR) when
\* tabulate failed, the data otherwise.
ResultsResponse(bs, result) ==
  IF Len(bs) = 0 THEN Success
  ELSE IF result.err # "" THEN BareStatus(500)
  ELSE Success

\* get_poll_results / get_rcv_rounds from the load of the ballots on, for a
\* poll with the candidates and ballots of the tabulation.  The handlers
\* build the tabulator with SingleWinnerRCV::new.
ResultsRespond ==
  /\ tpc = "done"
  /\ tie_break_method = Random(DefaultSeed)
  /\ api_response = NoResponse
  /\ api_response' = ResultsResponse(cur_ballots, tresult)
  /\ UNCHANGED <<candidates, ballots, tie_break_method, rng, run, cur_ballots, tpc, rounds,
                 eliminated_candidates, round_number, tresult, first_result, voteVars>>

NextTab == TabulateStart \/ TabulateRound \/ TabulateAgain \/ ResultsRespond

SpecTab == InitTab /\ [][NextTab]_vars

----------------------------------------------------------------------------
\* The tabulation of larger elections: one candidate more, and ballot lists
\* made of copies of a few rankings.

MaxCopies == 2

LargeCandidates == 1..(MaxCandidates + 1)

\* The rankings the lists are made of, and how many copies of each a list
\* has at most.
Patterns == << <<1>>, <<2>>, <<3>>, <<4, 1>>, <<4, 2>>, <<3, 2>>, <<1, 2>>, <<2, 1>> >>
Limits == <<MaxCopies, MaxCopies, MaxCopies + 1, MaxCopies - 1, MaxCopies - 1, MaxCopies - 1,
            MaxCopies, MaxCopies>>

RECURSIVE Copies(_, _)
Copies(r, n) == IF n = 0 THEN <<>> ELSE <<r>> \o Copies(r, n - 1)

\* The list with counts[k] copies of Patterns[k], for k up to n.
RECURSIVE CopiesOfAll(_, _)
CopiesOfAll(counts, n) ==
  IF n = 0 THEN <<>>
  ELSE CopiesOfAll(counts, n - 1) \o Copies(Patterns[n], counts[n])

LargeBallotLists ==
  {CopiesOfAll(counts, Len(Patterns)) :
     counts \in {c \in [DOMAIN Patterns -> 0..(MaxCopies + 1)] :
                   \A k \in DOMAIN Patterns : c[k] <= Limits[k]}}

\* One tabulation with the default configuration.
InitLarge ==
  /\ candidates \in {1..MaxCandidates, LargeCandidates}
  /\ ballots \in LargeBallotLists
  /\ tie_break_method = Random(DefaultSeed)
  /\ rng = [n \in 2..Cardinality(LargeCandidates) |-> -1]
  /\ run = 2
  /\ cur_ballots = ballots
  /\ tpc = "start"
  /\ rounds = <<>>
  /\ eliminated_candidates = {}
  /\ round_number = 1
  /\ tresult = NoResult
  /\ first_result = NoResult
  /\ api_response = NoResponse
  /\ StoreIdle

NextLarge == TabulateStart \/ TabulateRound

SpecLarge == InitLarge /\ [][NextLarge]_vars

----------------------------------------------------------------------------
\* The poll as a whole: a submission, a read-only request of a voter, and
\* then the results of the stored ballots, while time passes.

\* array_agg(r.candidate_id ORDER BY r.rank) over the ranking rows of one
\* ballot.
CandidateIdsByRank(rows) ==
  LET order == CHOOSE o \in Orderings(rows) :
                 \A i, j \in DOMAIN o : i < j => o[i].rank <= o[j].rank
  IN [k \in DOMAIN order |-> order[k].candidate_id]

\* Ballot::find_by_poll_id: one tabulator ballot per ballot row that joins
\* with ranking rows, here in the order of the ballot ids.
find_by_poll_id ==
  LET ids == {b.id : b \in ballots_tbl} \cap {x.ballot_id : x \in rankings_tbl}
      order == CHOOSE o \in Orderings(ids) : \A i, j \in DOMAIN o : i < j => o[i] < o[j]
  IN [k \in DOMAIN order |->
        CandidateIdsByRank({x \in rankings_tbl : x.ballot_id = order[k]})]

\* A mutant of GetBallot: the voter found is marked as having voted.
GetBallotMarking(r) ==
  /\ req[r].pc = "idle"
  /\ \E token \in {0} \cup Voters :
       /\ req' = [req EXCEPT ![r] =
                    [(IF token = 0 THEN Done(r, "NOT_FOUND")
                      ELSE IF voted_at[token] # NoTime THEN Done(r, "ALREADY_VOTED")
                      ELSE IF ~is_open(poll, now) THEN Done(r, "POLL_CLOSED")
                      ELSE Done(r, "OK"))
                     EXCEPT !.kind = "display", !.voter = token]]
       /\ voted_at' = [v \in Voters |-> IF v = token THEN now ELSE voted_at[v]]
  /\ UNCHANGED <<ballots_tbl, rankings_tbl, poll, now, voter_index, tabVars>>

\* get_ballot: Voter::find_by_token, the has_voted test, the voting window,
\* and the poll with its candidates for display.
GetBallot(r) ==
  /\ req[r].pc = "idle"
  /\ \E token \in {0} \cup Voters :
       req' = [req EXCEPT ![r] =
                 [(IF token = 0 THEN Done(r, "NOT_FOUND")
                   ELSE IF voted_at[token] # NoTime THEN Done(r, "ALREADY_VOTED")
                   ELSE IF ~is_open(poll, now) THEN Done(r, "POLL_CLOSED")
                   ELSE Done(r, "OK"))
                  EXCEPT !.kind = "display", !.voter = token]]
  /\ UNCHANGED <<voted_at, ballots_tbl, rankings_tbl, poll, now, voter_index, tabVars>>

\* get_poll_results / get_rcv_rounds up to the tabulation, requested at the
\* end of the time, when the voters' requests are over: the candidates and the ballots of the poll are
\* loaded; without ballots the answer is "no_votes", else the tabulator is
\* built from them with SingleWinnerRCV::new.
GetPollResults ==
  /\ tpc = "idle"
  /\ api_response = NoResponse
  /\ \A r \in Requests : req[r].pc = "done"
  /\ now = MaxTime
  /\ candidates' = PollCandidates
  /\ ballots' = find_by_poll_id
  /\ cur_ballots' = find_by_poll_id
  /\ IF Len(find_by_poll_id) = 0
       THEN /\ api_response' = ResultsResponse(find_by_poll_id, tresult)
            /\ tpc' = tpc
       ELSE /\ api_response' = api_response
            /\ tpc' = "start"
  /\ UNCHANGED <<tie_break_method, rng, run, rounds, eliminated_candidates, round_number,
                 tresult, first_result, voteVars>>

\* A submission, then a read-only request of a voter, then the results.
NextPoll ==
  \/ Tick
  \/ SubmitBallotFind(1)
  \/ AnonymousVoteValidate(1)
  \/ req[1].pc = "done" /\ GetBallot(2)
  \/ req[1].pc = "done" /\ GetVotingReceipt(2)
  \/ \E r \in Requests :
       \/ SubmitBallotValidate(r)
       \/ TxInsertBallot(r)
       \/ TxInsertRanking(r)
       \/ TxCommit(r)
       \/ MarkAsVoted(r)
       \/ Respond(r)
       \/ StoreFailure(r)
       \/ Cancel(r)
  \/ GetPollResults
  \/ TabulateStart
  \/ TabulateRound
  \/ ResultsRespond

SpecPoll == InitSubmit /\ [][NextPoll]_vars

----------------------------------------------------------------------------
\* Properties of the tabulator.

\* The preconditions of tabulate.
Preconditions == Cardinality(candidates) >= 2 /\ validate_ballots(candidates, cur_ballots) = "Ok"

Returned == tpc = "done" /\ tresult.err = ""

TallySum(round) == SumOver(round.vote_counts, DOMAIN round.vote_counts)

\* C1: in every round of every returned result, the tallies of all candidates
\* plus the exhausted ballots add up to the number of input ballots, which is
\* the result's total_ballots.
C1_RoundConservation ==
  Returned =>
    /\ tresult.total_ballots = Len(cur_ballots)
    /\ \A k \in DOMAIN tresult.rounds :
         TallySum(tresult.rounds[k]) + tresult.rounds[k].exhausted_ballots
           = tresult.total_ballots

\* C1 witness: a returned result of two rounds or more whose last round has
\* both counted and exhausted ballots.
C1_Witness ==
  /\ Returned
  /\ Len(tresult.rounds) >= 2
  /\ tresult.rounds[Len(tresult.rounds)].exhausted_ballots >= 1
  /\ tresult.rounds[Len(tresult.rounds)].total_votes >= 1

\* C3: two tabulations of the same candidates, the same ballot list and the
\* same seed return equal results (rounds, tallies, eliminations, winners,
\* tie-break reasons, final winner).
C3_Deterministic ==
  (run = 2 /\ tpc = "done" /\ cur_ballots = ballots) => tresult = first_result

\* C4: the tabulation of a rearranged ballot list returns the same rounds and
\* the same final winner as the tabulation of the list itself.
C4_PermutationInvariant ==
  (run = 2 /\ tpc = "done" /\ cur_ballots # ballots /\ tresult.err = ""
     /\ first_result.err = "")
    => /\ tresult.rounds = first_result.rounds
       /\ tresult.winner = first_result.winner

\* C5: on inputs that satisfy the preconditions the loop stays within
\* |candidates| rounds, and tabulate returns a result, never the
\* too-many-rounds error.
C5_BoundedRounds ==
  Preconditions =>
    /\ tpc = "loop" => (Len(rounds) = round_number - 1 /\ round_number <= Cardinality(candidates))
    /\ tpc = "done" => (tresult.err = "" /\ Len(tresult.rounds) <= Cardinality(candidates))

\* C5 witness: a tabulation that needed as many rounds as there are candidates.
C5_Witness ==
  /\ Preconditions
  /\ Returned
  /\ Cardinality(candidates) = MaxCandidates
  /\ Len(tresult.rounds) = Cardinality(candidates)

\* C8: a candidate recorded as eliminated in round k has no tally in any later
\* round, is not eliminated again, is not a later round's winner and is not
\* the final winner.
C8_EliminatedStaysOut ==
  /\ \A k \in DOMAIN rounds : \A m \in DOMAIN rounds :
       (k < m /\ rounds[k].eliminated # None) =>
         /\ rounds[k].eliminated \notin DOMAIN rounds[m].vote_counts
         /\ rounds[m].eliminated # rounds[k].eliminated
         /\ rounds[m].winner # rounds[k].eliminated
  /\ Returned =>
       \A k \in DOMAIN tresult.rounds :
         tresult.rounds[k].eliminated # None => tresult.winner # tresult.rounds[k].eliminated

\* C8 witness: a later round was counted after the elimination of a candidate
\* that some ballot ranks ahead of another candidate.
C8_Witness ==
  /\ Len(rounds) >= 2
  /\ rounds[1].eliminated # None
  /\ \E i \in DOMAIN cur_ballots :
       /\ Len(cur_ballots[i]) = 2
       /\ cur_ballots[i][1] = rounds[1].eliminated
       /\ cur_ballots[i][2] \in DOMAIN rounds[2].vote_counts

\* The winner C10 describes, read off the last round.
LastRoundWinner(rs) ==
  LET last == rs[Len(rs)]
      holding == DOMAIN last.vote_counts
  IN IF last.winner # None THEN last.winner
     ELSE IF Cardinality(holding) = 1 THEN CHOOSE c \in holding : TRUE
     ELSE None

\* C10: the final winner is the winner declared in the last round; if that
\* round declared none, the sole candidate holding votes in it; else none.
C10_FinalWinner ==
  Returned =>
    /\ Len(tresult.rounds) >= 1
    /\ tresult.winner = LastRoundWinner(tresult.rounds)

\* C10 witness: a result whose winner was declared in a round after the first,
\* with another candidate still holding votes in that round.
C10_Witness ==
  /\ Returned
  /\ Len(tresult.rounds) >= 2
  /\ tresult.rounds[Len(tresult.rounds)].winner # None
  /\ Cardinality(DOMAIN tresult.rounds[Len(tresult.rounds)].vote_counts) >= 2

\* Some ballot ranks an id outside the candidate set.
RanksUnknownId == \E i \in DOMAIN cur_ballots : \E k \in DOMAIN cur_ballots[i] :
                    cur_ballots[i][k] \notin candidates

\* Some ballot ranks the same id twice.
RanksTwice == \E i \in DOMAIN cur_ballots : \E j, k \in DOMAIN cur_ballots[i] :
                j # k /\ cur_ballots[i][j] = cur_ballots[i][k]

ConfiguredRules(method) ==
  IF method = Random(DefaultSeed)
    THEN {"FirstChoiceVotes", "PriorRoundPerformance", "MostVotesToDistribute", "Random"}
    ELSE {method.kind}

\* C17: every tie is resolved by one of the configured rules: a tabulator
\* configured with_tie_break_method(PriorRoundPerformance) resolves ties by
\* that rule only, the default configuration by any of the four.
C17_ConfiguredRules ==
  \A k \in DOMAIN rounds :
    rounds[k].tiebreak_reason # NoReason =>
      rounds[k].tiebreak_reason \in ConfiguredRules(tie_break_method)

\* C18: when tabulation fails inside get_poll_results or get_rcv_rounds, the
\* response is the JSON envelope with success = false and error.code =
\* TABULATION_FAILED.
C18_TabulationFailed ==
  (api_response # NoResponse /\ Len(cur_ballots) > 0 /\ tresult.err # "") =>
    /\ api_response.envelope
    /\ ~api_response.success
    /\ api_response.code = "TABULATION_FAILED"

\* The candidates recorded as eliminated in the rounds before round k.
EliminatedBefore(k) == {rounds[j].eliminated : j \in 1..(k - 1)} \ {None}

\* The candidate a ballot counts for when the candidates in E are out: the
\* first one in its ranking that is not in E, None if there is none.
CountsFor(ranking, E) ==
  IF \A i \in DOMAIN ranking : ranking[i] \in E THEN None
  ELSE ranking[CHOOSE i \in DOMAIN ranking :
                 ranking[i] \notin E /\ \A j \in 1..(i - 1) : ranking[j] \in E]

\* The tally of candidate c in a round, 0 when the round has no entry for c.
TallyOf(round, c) == IF c \in DOMAIN round.vote_counts THEN round.vote_counts[c] ELSE 0

\* C19: in round k every ballot is counted once, for the first candidate of
\* its ranking that was not eliminated in a round before k, or as exhausted
\* when there is none: the tally of each candidate and the exhausted count
\* of round k are the numbers of such ballots.  So the ballots of the
\* candidate eliminated in round k move to their next preference in k + 1.
C19_CountedOnce ==
  \A k \in DOMAIN rounds :
    /\ \A c \in CandidateIds :
         TallyOf(rounds[k], c) =
           Cardinality({i \in DOMAIN cur_ballots : CountsFor(cur_ballots[i], EliminatedBefore(k)) = c})
    /\ rounds[k].exhausted_ballots =
         Cardinality({i \in DOMAIN cur_ballots : CountsFor(cur_ballots[i], EliminatedBefore(k)) = None})

\* C19 witness: the candidate eliminated in round 1 was the first choice of
\* a ballot whose second choice has one vote more in round 2, while another
\* ballot is exhausted.
C19_Witness ==
  /\ Len(rounds) >= 2
  /\ rounds[1].eliminated # None
  /\ rounds[2].exhausted_ballots >= 1
  /\ \E i \in DOMAIN cur_ballots :
       /\ Len(cur_ballots[i]) = 2
       /\ cur_ballots[i][1] = rounds[1].eliminated
       /\ TallyOf(rounds[2], cur_ballots[i][2]) = TallyOf(rounds[1], cur_ballots[i][2]) + 1

\* C20: a round records a winner iff some candidate's tally is more than
\* half of the round's total active votes; the winner is such a candidate, a
\* tally of exactly half is no win, total_votes is the sum of the tallies
\* and majority_threshold is total_votes / 2.
C20_Majority ==
  \A k \in DOMAIN rounds :
    /\ rounds[k].total_votes = TallySum(rounds[k])
    /\ rounds[k].majority_threshold = <<rounds[k].total_votes, 2>>
    /\ (rounds[k].winner # None) <=>
         (\E c \in DOMAIN rounds[k].vote_counts : 2 * rounds[k].vote_counts[c] > TallySum(rounds[k]))
    /\ rounds[k].winner # None =>
         /\ rounds[k].winner \in DOMAIN rounds[k].vote_counts
         /\ 2 * rounds[k].vote_counts[rounds[k].winner] > TallySum(rounds[k])

\* C20 witness: a round in which a candidate holds exactly half of the votes
\* and no winner is recorded, followed by a round with a winner.
C20_Witness ==
  /\ Len(rounds) >= 2
  /\ \E c \in DOMAIN rounds[1].vote_counts :
       2 * rounds[1].vote_counts[c] = rounds[1].total_votes
  /\ rounds[1].winner = None
  /\ rounds[2].winner # None

\* The candidates holding a round's lowest tally.
AtMinimum(round) ==
  {c \in DOMAIN round.vote_counts :
     \A d \in DOMAIN round.vote_counts : round.vote_counts[c] <= round.vote_counts[d]}

UniqueLowest(T, f) ==
  LET lowest == {c \in T : \A d \in T : f[c] <= f[d]}
  IN IF Cardinality(lowest) = 1 THEN CHOOSE c \in lowest : TRUE ELSE None

\* Rule 1 on the tied set T: the member with the fewest ballots that rank it
\* first.
FirstChoiceRule(T) ==
  UniqueLowest(T, [c \in T |->
    Cardinality({i \in DOMAIN cur_ballots : cur_ballots[i] # <<>> /\ cur_ballots[i][1] = c})])

\* Rule 2 on one earlier round: among the members of T with a tally in the
\* round, two at least, the one with the strictly lowest tally.
PriorRoundRuleIn(T, round) ==
  LET present == T \cap DOMAIN round.vote_counts
  IN IF Cardinality(present) < 2 THEN None
     ELSE UniqueLowest(present, [c \in present |-> round.vote_counts[c]])

\* Rule 2 on the rounds before round k: the most recent round that singles
\* out a member decides.
PriorRoundRule(T, k) ==
  LET deciding == {j \in 1..(k - 1) : PriorRoundRuleIn(T, rounds[j]) # None}
  IN IF deciding = {} THEN None
     ELSE PriorRoundRuleIn(T, rounds[CHOOSE j \in deciding : \A m \in deciding : m <= j])

\* The preferences a ballot has left after its earliest member of T, counted
\* for that member c.
LeftAfter(ranking, T, c) ==
  LET at == {i \in DOMAIN ranking : ranking[i] \in T /\ \A j \in 1..(i - 1) : ranking[j] \notin T}
  IN IF at # {} /\ (\E i \in at : ranking[i] = c)
       THEN Len(ranking) - (CHOOSE i \in at : TRUE)
       ELSE 0

\* Rule 3 on the tied set T: the member with the most preferences to
\* redistribute.
MostVotesRule(T) ==
  UniqueLowest(T, [c \in T |->
    0 - SumOver([i \in DOMAIN cur_ballots |-> LeftAfter(cur_ballots[i], T, c)], DOMAIN cur_ballots)])

\* C22: a tie at the minimum is resolved by the first of FirstChoiceVotes,
\* PriorRoundPerformance, MostVotesToDistribute that singles out one member
\* of the tied set, the recorded reason names that rule, and when none does
\* the reason is Random and the eliminated candidate is a member of the
\* tied set.
C22_LadderOrder ==
  \A k \in DOMAIN rounds :
    rounds[k].tiebreak_reason # NoReason =>
      LET T == AtMinimum(rounds[k])
          expected ==
            IF FirstChoiceRule(T) # None THEN <<FirstChoiceRule(T), "FirstChoiceVotes">>
            ELSE IF PriorRoundRule(T, k) # None THEN <<PriorRoundRule(T, k), "PriorRoundPerformance">>
            ELSE IF MostVotesRule(T) # None THEN <<MostVotesRule(T), "MostVotesToDistribute">>
            ELSE <<rounds[k].eliminated, "Random">>
      IN /\ rounds[k].eliminated \in T
         /\ <<rounds[k].eliminated, rounds[k].tiebreak_reason>> = expected

\* C22 witness: three ties in one tabulation, resolved by Random, by
\* MostVotesToDistribute and by PriorRoundPerformance.
C22_Witness ==
  /\ Len(rounds) >= 3
  /\ rounds[1].tiebreak_reason = "Random"
  /\ rounds[2].tiebreak_reason = "MostVotesToDistribute"
  /\ rounds[3].tiebreak_reason = "PriorRoundPerformance"

\* The members of T with a tally in the round.
PresentIn(T, round) == T \cap DOMAIN round.vote_counts

\* The round differentiates T: two of its members have different tallies.
Differentiates(T, round) ==
  \E c, d \in PresentIn(T, round) : round.vote_counts[c] # round.vote_counts[d]

\* C23: when FirstChoiceVotes leaves a tie T undecided, PriorRoundPerformance
\* decides exactly when some earlier round differentiates T's members, and
\* then eliminates a member of T with the lowest tally in the most recent
\* such round.
C23_PriorRound ==
  \A k \in DOMAIN rounds :
    (rounds[k].tiebreak_reason # NoReason /\ FirstChoiceRule(AtMinimum(rounds[k])) = None) =>
      LET T == AtMinimum(rounds[k])
          differing == {j \in 1..(k - 1) : Differentiates(T, rounds[j])}
          recent == CHOOSE j \in differing : \A m \in differing : m <= j
      IN IF differing = {}
           THEN rounds[k].tiebreak_reason # "PriorRoundPerformance"
           ELSE /\ rounds[k].tiebreak_reason = "PriorRoundPerformance"
                /\ rounds[k].eliminated \in PresentIn(T, rounds[recent])
                /\ \A d \in PresentIn(T, rounds[recent]) :
                     rounds[recent].vote_counts[rounds[k].eliminated] <= rounds[recent].vote_counts[d]

\* C24: in every round vote_counts has an entry for exactly the candidates
\* of the candidate set that were not eliminated in an earlier round.
C24_ActiveEntries ==
  \A k \in DOMAIN rounds :
    DOMAIN rounds[k].vote_counts = candidates \ EliminatedBefore(k)

\* Candidates A, B, C as 1, 2, 3 with the ballots [A,B], [A,B], [B,A],
\* [B,A], [C], tabulated to the end.
ExhaustionScenario ==
  /\ candidates = {1, 2, 3}
  /\ cur_ballots = << <<3>>, <<1, 2>>, <<1, 2>>, <<2, 1>>, <<2, 1>> >>
  /\ Returned

RoundOneOfScenario ==
  /\ Len(tresult.rounds) >= 2
  /\ tresult.rounds[1].vote_counts = (1 :> 2 @@ 2 :> 2 @@ 3 :> 1)
  /\ tresult.rounds[1].eliminated = 3
  /\ tresult.rounds[2].exhausted_ballots = 1

NotLast(k) == k < Len(rounds) \/ tpc = "loop"

\* C26: the i-th round has round_number i; a round that is not the last one
\* records no winner and one eliminated candidate that no previous round
\* eliminated; the last round of a result records no eliminated candidate,
\* and only it can record a winner.
C26_RoundStateMachine ==
  \A k \in DOMAIN rounds :
    /\ rounds[k].round_number = k
    /\ NotLast(k) =>
         /\ rounds[k].winner = None
         /\ rounds[k].eliminated \in candidates
         /\ rounds[k].eliminated \notin EliminatedBefore(k)
    /\ (Returned /\ k = Len(rounds)) =>
         /\ rounds[k].eliminated = None
         /\ tresult.rounds = rounds

\* C26 witness: a result of three rounds, two eliminations and then a winner.
C26_Witness ==
  /\ Returned
  /\ Len(rounds) = 3
  /\ rounds[1].eliminated # None
  /\ rounds[2].eliminated # None
  /\ rounds[3].winner # None

\* C30: from one round to the next exhausted_ballots does not decrease,
\* total_votes does not increase, and no candidate holding votes in the later
\* round has a lower tally there than in the earlier round.
C30_Monotone ==
  \A k \in DOMAIN rounds :
    (k + 1 \in DOMAIN rounds) =>
      /\ rounds[k + 1].exhausted_ballots >= rounds[k].exhausted_ballots
      /\ rounds[k + 1].total_votes <= rounds[k].total_votes
      /\ \A c \in DOMAIN rounds[k + 1].vote_counts :
           rounds[k + 1].vote_counts[c] >= TallyOf(rounds[k], c)

\* C30 witness: three rounds in which the exhausted ballots grow from the
\* first to the second and a tally grows from the second to the third.
C30_Witness ==
  /\ Len(rounds) = 3
  /\ rounds[2].exhausted_ballots > rounds[1].exhausted_ballots
  /\ rounds[2].total_votes < rounds[1].total_votes
  /\ \E c \in DOMAIN rounds[3].vote_counts :
       rounds[3].vote_counts[c] > TallyOf(rounds[2], c)

----------------------------------------------------------------------------
\* Properties of ballot submission.

RankingRowsOf(id) == {x \in rankings_tbl : x.ballot_id = id}

\* Request r was a submit_ballot for voter v that ran to its response with
\* valid rankings, untouched by store failures and cancellation.
RanToResponse(r, v) ==
  /\ req[r].pc = "done"
  /\ req[r].kind = "invited"
  /\ req[r].voter = v
  /\ req[r].failed_at = ""
  /\ req[r].resp \notin {"VALIDATION_ERROR", "POLL_CLOSED"}

\* C2: two submit_ballot requests with one voter's token and valid rankings
\* end with exactly one success carrying a receipt, exactly one ALREADY_VOTED
\* and exactly one ballot row of that voter; at all times at most one ballot
\* row references an invited voter.
C2_DoubleSubmission ==
  /\ \A v \in Voters : Cardinality(BallotRowsOf(v)) <= 1
  /\ \A v \in Voters : \A r1 \in Requests : \A r2 \in Requests \ {r1} :
       (RanToResponse(r1, v) /\ RanToResponse(r2, v)) =>
         /\ {req[r1].resp, req[r2].resp} = {"OK", "ALREADY_VOTED"}
         /\ \A r \in {r1, r2} : req[r].resp = "OK" => req[r].receipt # <<>>
         /\ Cardinality(BallotRowsOf(v)) = 1

\* An invited voter has voted_at set exactly when a ballot row references it.
VotedIffBallot ==
  \A v \in Voters : (voted_at[v] # NoTime) <=> (BallotRowsOf(v) # {})

\* A step of mark_as_voted finds voted_at null.
MarkFindsNull ==
  \A r \in Requests :
    (req[r].pc = "mark" /\ req'[r].pc = "respond") => voted_at[req[r].voter] = NoTime

\* C6: the insertion of the ballot and the voter's transition are atomic: in
\* every state an invited voter has voted_at set iff a ballot row references
\* the voter, and voted_at is only set when it was null.
C6_AtomicTransition == []VotedIffBallot /\ [][MarkFindsNull]_vars

HasDuplicateCandidate(body) ==
  \E i \in DOMAIN body : \E j \in DOMAIN body : i # j /\ body[i].candidate_id = body[j].candidate_id

\* C7: an accepted submission has pairwise distinct candidate ids; a
\* submission that names a candidate twice is not accepted and leaves no
\* ballot row and no ranking row.
C7_DistinctCandidates ==
  \A r \in Requests :
    HasDuplicateCandidate(req[r].body) =>
      /\ req[r].resp # "OK"
      /\ \A b \in ballots_tbl : b.id # r
      /\ RankingRowsOf(r) = {}

\* The ranking rows of the whole submission of request r.
SubmittedRankings(r) ==
  {[ballot_id |-> r, candidate_id |-> req[r].body[k].candidate_id, rank |-> req[r].body[k].rank] :
     k \in DOMAIN req[r].body}

\* C9: a ballot and its rankings are committed together or not at all: each
\* ballot row has exactly the rankings of its submission, each ranking row
\* belongs to a ballot row, and a request that failed or was cancelled inside
\* the transaction, or has not committed yet, has left no row.
C9_BallotWithRankings ==
  /\ \A b \in ballots_tbl : RankingRowsOf(b.id) = SubmittedRankings(b.id)
  /\ \A x \in rankings_tbl : \E b \in ballots_tbl : b.id = x.ballot_id
  /\ \A r \in Requests :
       (req[r].pc \in {"create", "tx"} \/ req[r].failed_at \in {"create", "tx"}) =>
         /\ \A b \in ballots_tbl : b.id # r
         /\ RankingRowsOf(r) = {}

\* C9 witness: one request failed or was cancelled after the ballot insert and
\* a ranking insert, before its last ranking insert, and another request has
\* committed a ballot with all its rankings.
C9_Witness ==
  /\ \E r \in Requests :
       /\ req[r].failed_at = "tx"
       /\ req[r].inserted >= 1
       /\ req[r].inserted < Len(req[r].body)
  /\ \E b \in ballots_tbl : Cardinality(RankingRowsOf(b.id)) = MaxRankLen

----------------------------------------------------------------------------
\* Properties of one submission and the receipt.

IsSubmission(r) == req[r].kind \in {"invited", "anonymous"}

\* The handler of request r accepted the submission.
Accepted(r) == req[r].pc \in {"create", "tx", "mark", "respond"} \/ req[r].resp = "OK"

\* The handler of request r answered, and no store failure or cancellation
\* cut it short.
Answered(r) == req[r].pc = "done" /\ req[r].failed_at = ""

\* Request r has left no row in the store.
NothingStored(r) == (\A b \in ballots_tbl : b.id # r) /\ RankingRowsOf(r) = {}

\* The ranks of a body are 1, 2, ..., n in some order.
RanksSequential(body) == \A i \in 1..Len(body) :
                           Cardinality({k \in DOMAIN body : body[k].rank = i}) = 1

BreaksRankingRules(body) ==
  \/ Len(body) = 0
  \/ \E k \in DOMAIN body : body[k].candidate_id \notin PollCandidates
  \/ HasDuplicateCandidate(body)
  \/ ~RanksSequential(body)

\* The time t lies in the voting window of the poll, bounds included, an
\* absent bound being no bound.
InWindow(p, t) ==
  /\ (p.opens_at # NoTime => p.opens_at <= t)
  /\ (p.closes_at # NoTime => t <= p.closes_at)

\* The reason of the first violation in the order Empty, UnknownCandidate,
\* DuplicateCandidate, NonSequentialRanks, PollClosed, PollNotPublic,
\* AlreadyVoted, as an error code.
FirstViolation(r) ==
  IF BreaksRankingRules(req[r].body) THEN "VALIDATION_ERROR"
  ELSE IF ~InWindow(poll, req[r].at) THEN "POLL_CLOSED"
  ELSE IF req[r].kind = "anonymous" /\ ~poll.is_public THEN "POLL_NOT_PUBLIC"
  ELSE "ALREADY_VOTED"

\* C13: a rejected submission carries the reason of its first violation in
\* the order Empty, UnknownCandidate, DuplicateCandidate, NonSequentialRanks,
\* PollClosed, PollNotPublic, AlreadyVoted.
C13_FirstViolation ==
  \A r \in Requests :
    (/\ IsSubmission(r)
     /\ Answered(r)
     /\ req[r].resp \in {"VALIDATION_ERROR", "POLL_CLOSED", "POLL_NOT_PUBLIC", "ALREADY_VOTED"})
      => req[r].resp = FirstViolation(r)

\* The handler of request r got as far as the test of the voting window.
ReachedWindowTest(r) ==
  /\ IsSubmission(r)
  /\ Accepted(r) \/ (Answered(r) /\ req[r].resp \notin {"NOT_FOUND", "ALREADY_VOTED",
                                                         "POLL_NOT_PUBLIC"})

C15_PollNotPublic ==
  \A r \in Requests :
    (req[r].kind = "anonymous" /\ req[r].resp # "NOT_FOUND" /\ ~poll.is_public) =>
      /\ Answered(r) /\ req[r].resp = "POLL_NOT_PUBLIC"
      /\ NothingStored(r)

\* C15 witness: valid rankings sent while the non-public poll was open were
\* answered POLL_NOT_PUBLIC.
C15_Witness ==
  \E r \in Requests :
    /\ req[r].kind = "anonymous"
    /\ ~poll.is_public
    /\ InWindow(poll, req[r].at)
    /\ ~BreaksRankingRules(req[r].body)
    /\ Len(req[r].body) = MaxRankLen
    /\ req[r].resp = "POLL_NOT_PUBLIC"

\* C16: a successful get_voting_receipt for an invited voter returns the
\* receipt_code that the response to the voter's successful submit_ballot
\* carried.
C16_SameReceipt ==
  \A r \in Requests : \A q \in Requests :
    (/\ req[q].kind = "invited" /\ req[q].resp = "OK"
     /\ req[r].kind = "receipt" /\ req[r].resp = "OK"
     /\ req[r].voter = req[q].voter)
      => req[r].receipt = req[q].receipt

----------------------------------------------------------------------------
\* Properties of the poll as a whole.

\* C27: the ballots stored by accepted submissions satisfy the
\* preconditions of the tabulator, and the results requests never answer
\* with the bare 500 of a tabulation error.
C27_StoredBallotsValid ==
  /\ validate_ballots(PollCandidates, find_by_poll_id) = "Ok"
  /\ api_response # BareStatus(500)

\* No ballot of the list ranks any candidate.
NoRanking(bs) == \A i \in DOMAIN bs : bs[i] = <<>>

\* C28: a tabulation of valid input returns no winner exactly when no
\* ballot ranks a candidate, and the results of a poll with a stored ballot
\* report a winner.
C28_WinnerReported ==
  /\ (tpc = "done" /\ Preconditions) =>
       (tresult.err = "" /\ (tresult.winner = None <=> NoRanking(cur_ballots)))
  /\ (api_response # NoResponse /\ Len(cur_ballots) >= 1) =>
       (api_response = Success /\ tresult.winner # None)

ErrorCodes == {"NOT_FOUND", "ALREADY_VOTED", "POLL_CLOSED", "POLL_NOT_PUBLIC", "VALIDATION_ERROR"}

\* A step of request r that is a get_ballot or a get_voting_receipt, or the
\* step of a submission that answers with an error code, or a step of a
\* submission up to the test of its rankings.
StepWithoutEffect(r) ==
  /\ req'[r] # req[r]
  /\ \/ req'[r].kind \in {"display", "receipt"}
     \/ IsSubmission(r)' /\ req'[r].resp \in ErrorCodes
     \/ req'[r].pc = "found_voter"

\* C29: the steps of a get_ballot, of a get_voting_receipt and of a
\* submission answered with an error code leave the ballot rows, the ranking
\* rows and every voted_at as they were, and such a submission has no row of
\* its own in the store.
C29_NoEffect ==
  /\ [][\A r \in Requests :
          StepWithoutEffect(r) => UNCHANGED <<voted_at, ballots_tbl, rankings_tbl>>]_vars
  /\ [](\A r \in Requests :
          (IsSubmission(r) /\ req[r].resp \in ErrorCodes) => NothingStored(r))

\* C29 witness: a voter who voted earlier submitted again and was answered
\* ALREADY_VOTED, then asked for the ballot and was answered ALREADY_VOTED;
\* the ballot row of the earlier submission is in the store.
C29_Witness ==
  /\ req[1].kind = "invited" /\ req[1].resp = "ALREADY_VOTED"
  /\ req[2].kind = "display" /\ req[2].resp = "ALREADY_VOTED"
  /\ Cardinality(ballots_tbl) = 1
  /\ voted_at[req[1].voter] # NoTime

====
